---- MODULE Spec2Model ----
(***************************************************************************)
(* Model of the named-pipe transport of xmil9/ipc: the completion-routine  *)
(* pipe server (CrPipeServer, CrPipe, CrPipeCallbacks in src/pipes.h).     *)
(*                                                                         *)
(* One action is one run of the dispatch thread between two waits: the     *)
(* start of Run, one "case 0" iteration of the loop, or one completion     *)
(* routine delivered by the alertable wait, each with every call it makes  *)
(* (observer hook, ListenForData, SendData, Disconnect) included.  The     *)
(* operating system and the pipe clients are the environment: their        *)
(* answers are inputs drawn with \E.                                       *)
(*                                                                         *)
(* Beside the server stand three smaller models, each with a specification *)
(* of its own: the dispatch thread at the grain of its calls               *)
(* (DispatchSpec), the ClientPipe objects and their handles (ClientSpec),  *)
(* and the codec of src/serialization.h (CodecSpec).  The server is also   *)
(* run with the echo observer of test_pipe_server.cpp wired in (EchoSpec,  *)
(* and EchoFairSpec with fair delivery of completions).                    *)
(***************************************************************************)
EXTENDS Integers, Sequences, FiniteSets, TLC

\* ------------------------------------------------------------- bounds
\* Connections the server creates in one run (the last one fails to be set up).
MaxConns == 3
\* Read buffer capacity (template parameter N) and write buffer capacity (M).
N == 2
M == 2
\* Longest message a client sends, and messages a client sends per connection.
MaxMsgLen == 5
MaxMsgs == 1
\* Calls a custom observer makes on the pipe in one hook invocation, and the
\* notifications it reacts to with calls of its own choice.
MaxHookCalls == 2
MaxCustomHooks == 1
\* Lengths the echo observer's texts "Pipe server received data: " and "<none>"
\* are given, against the write capacity M.
PrefixLen == 1
NoneLen == 2

ConnId == 1..MaxConns

\* ------------------------------------------------------------- values
Null == 0

Min(a, b) == IF a < b THEN a ELSE b

\* The sequence base+1, ..., base+k.
RECURSIVE Ramp(_, _)
Ramp(base, k) == IF k = 0 THEN <<>> ELSE Append(Ramp(base, k - 1), base + k)
\* The j-th message of a client, k bytes long: byte i is 10*j + i.
ClientMsg(j, k) == Ramp(10 * j, k)
\* What a custom observer hands to SendData: k bytes, different for each k.
ObserverData(k) == Ramp(90 + 10 * k, k)
\* A zero-filled buffer of k bytes.
RECURSIVE Zeros(_)
Zeros(k) == IF k = 0 THEN <<>> ELSE Append(Zeros(k - 1), 0)

Take(s, k) == SubSeq(s, 1, Min(k, Len(s)))
Drop(s, k) == SubSeq(s, Min(k, Len(s)) + 1, Len(s))
\* std::copy of src to the front of a fixed-size buffer.
CopyInto(buf, src) == Take(src, Len(buf)) \o Drop(buf, Len(src))

Observers == {"default", "custom"}

\* The echo observer's response texts, as bytes no client message contains.
ResponsePrefix == Ramp(200, PrefixLen)
NoneText == Ramp(220, NoneLen)

VARIABLES
    observer,       \* which CrPipeCallbacks implementation the server was given
    assertsOn,      \* build flavour: TRUE when assert() is compiled in
    run,            \* CrPipeServer::Run: "notStarted", "waiting", "threw", "aborted"
    nextPipe,       \* Run's local nextPipe (Null before the first new)
    created,        \* number of CrPipe objects created so far
    pipes,          \* the CrPipe objects (fields and heap life)
    sharedEvent,    \* sharedEvent_: TRUE when signalled
    lastError,      \* the dispatch thread's GetLastError() value
    ops,            \* per pipe instance: operations the OS holds outstanding
    client,         \* per pipe instance: "absent" or "attached"
    inbox,          \* per pipe instance: the unread rest of the message being read, if any
    toClient,       \* per pipe instance: messages written through to the client
    sent,           \* history: messages the client wrote, in order
    log,            \* history: observer notifications, in order
    faults,         \* history: per connection, the number of notifications made when
                    \*          the system reported an error on a read or write of it
    sends,          \* history: the SendData calls made on the live connection
    destroyed,      \* history: how many times delete ran on the object
    staleUse,       \* history: accesses to the object after delete
    trail,          \* history: protocol states the connection went through in the last handler
    readyEvent,     \* pipeReadyEvent_: whether the caller set one, and whether it is signalled
    echo,           \* the echo observer: its accumulators and the pipes' handle values
    dispatch,       \* the dispatch thread seen one call at a time: where it is, what runs
    clients,        \* ClientPipe objects, the handles they opened and the last call made
    codec           \* a serialization buffer, a deserialization source and the last result

vars == <<observer, assertsOn, run, nextPipe, created, pipes, sharedEvent, lastError,
          ops, client, inbox, toClient, sent, log, faults, sends, destroyed, staleUse, trail,
          readyEvent, echo, dispatch, clients, codec>>

\* The parts of the state the pipe server's handlers do not touch.
others == <<dispatch, clients, codec>>

\* ------------------------------------------------------------- the state as one value
\* Handlers call each other synchronously; each is an operator from the state
\* before the call to the state after it.
World ==
    [run |-> run, nextPipe |-> nextPipe, created |-> created, pipes |-> pipes,
     sharedEvent |-> sharedEvent, lastError |-> lastError, ops |-> ops,
     client |-> client, toClient |-> toClient, log |-> log,
     faults |-> faults, sends |-> sends, destroyed |-> destroyed, staleUse |-> staleUse, trail |-> trail]

Commit(w) ==
    /\ run' = w.run
    /\ nextPipe' = w.nextPipe
    /\ created' = w.created
    /\ pipes' = w.pipes
    /\ sharedEvent' = w.sharedEvent
    /\ lastError' = w.lastError
    /\ ops' = w.ops
    /\ client' = w.client
    /\ toClient' = w.toClient
    /\ log' = w.log
    /\ faults' = w.faults
    /\ sends' = w.sends
    /\ destroyed' = w.destroyed
    /\ staleUse' = w.staleUse
    /\ trail' = w.trail

\* class CrPipe: a freshly constructed object (isConnectionPending_ = false,
\* isConnected_ = false, info_ cleared).
NewPipe ==
    [life |-> "live", self |-> Null, isConnectionPending |-> FALSE,
     isConnected |-> FALSE, ioStatus |-> "none",
     readBuffer |-> Zeros(N), writeBuffer |-> Zeros(M)]

NoPipe == [NewPipe EXCEPT !.life = "unborn"]

Step(w, c, s) == [w EXCEPT !.trail[c] = Append(@, s)]

\* The system reports an error on a read or write of the live connection.
Fault(w, c) ==
    IF w.pipes[c].life = "live" THEN [w EXCEPT !.faults[c] = Append(@, Len(w.log[c]))] ELSE w

\* SendData was called on the live, connected connection.
Sending(w, c, data, outcome) ==
    IF w.pipes[c].life = "live"
    THEN [w EXCEPT !.sends[c] = Append(@, [input |-> data, outcome |-> outcome])]
    ELSE w

\* ------------------------------------------------------------- CrPipe
\* A handler is an operator from the state before the call to the set of states
\* it can end in: one state for each answer the operating system can give.

\* Any use of a member or method of the object: after delete it is a stale use.
Enter(w, c) ==
    IF w.pipes[c].life = "destroyed" THEN [w EXCEPT !.staleUse[c] = TRUE] ELSE w

\* The values the code can read from isConnected_: after delete the memory is
\* freed and the read yields either value.
ReadsConnected(w, c) ==
    IF w.pipes[c].life = "destroyed" THEN BOOLEAN ELSE {w.pipes[c].isConnected}

\* A Disconnect that deletes the object before it asks the system to sever the pipe.
DisconnectDeleteFirst(w, c) ==
    LET w1 == Step([Enter(w, c) EXCEPT !.pipes[c].life = "destroyed",
                                       !.destroyed[c] = Min(@ + 1, 2)], c, "Disconnected")
    IN  {[w1 EXCEPT !.run = "threw", !.lastError = "DISCONNECT_FAILED"], w1}

\* A Disconnect that lets an exception escape after delete this.
DisconnectRethrow(w, c) ==
    LET w1 == Enter(w, c)
    IN  {[w1 EXCEPT !.run = "threw", !.lastError = "DISCONNECT_FAILED"],
         Step([w1 EXCEPT !.pipes[c].life = "destroyed", !.run = "threw",
                         !.destroyed[c] = Min(@ + 1, 2)], c, "Disconnected")}

\* CrPipe::Disconnect: DisconnectNamedPipe, throw when it fails (the thread's
\* last error is that of the failed call), else delete this.
Disconnect(w, c) ==
    LET w1 == Enter(w, c)
    IN  {[w1 EXCEPT !.run = "threw", !.lastError = "DISCONNECT_FAILED"],
         Step([w1 EXCEPT !.pipes[c].life = "destroyed",
                         !.destroyed[c] = Min(@ + 1, 2)], c, "Disconnected")}

\* ReadFileEx accepted: the read is outstanding.
ReadIssued(w, c) ==
    Step([w EXCEPT !.ops[c] = Append(@, [kind |-> "read", data |-> <<>>]),
                   !.pipes[c].ioStatus = "pending"], c, "ReadPending")

\* CrPipe::ListenForData: no-op unless connected; ReadFileEx; Disconnect when the
\* request is rejected.
ListenForData(w, c) ==
    LET w1 == Enter(w, c)
    IN  UNION {IF ~connected
               THEN {w1}
               ELSE {ReadIssued(w1, c)} \union Disconnect(Fault(w1, c), c) :
                  connected \in ReadsConnected(w, c)}

\* WriteFileEx accepted: the write of the first n bytes of writeBuffer_ is outstanding.
WriteIssued(w, c, n) ==
    Step([w EXCEPT !.ops[c] = Append(@, [kind |-> "write",
                                          data |-> Take(w.pipes[c].writeBuffer, n)]),
                   !.pipes[c].ioStatus = "pending"], c, "WritePending")

\* CrPipe::SendData: no-op unless connected; assert(dataSize <= M); copy
\* min(dataSize, M) bytes into writeBuffer_; WriteFileEx of that many bytes;
\* Disconnect when the request is rejected.
SendData(w, c, data) ==
    LET w1 == Enter(w, c)
        dataSize == Len(data)
        numBytesSending == Min(dataSize, M)
        w2 == [w1 EXCEPT !.pipes[c].writeBuffer = CopyInto(@, Take(data, numBytesSending))]
    IN  UNION {IF ~connected
               THEN {w1}
               ELSE IF assertsOn /\ ~(dataSize <= M)
                    THEN {Sending([w1 EXCEPT !.run = "aborted"], c, data, "asserted")}
                    ELSE {WriteIssued(Sending(w2, c, data, "issued"), c, numBytesSending)}
                            \union Disconnect(Fault(Sending(w2, c, data, "rejected"), c), c) :
                  connected \in ReadsConnected(w, c)}

\* One call an observer hook makes on the pipe it was handed.
Call(w, c, call) ==
    CASE call.op = "Listen" -> ListenForData(w, c)
      [] call.op = "Send" -> SendData(w, c, call.data)
      [] OTHER -> Disconnect(w, c)

\* The calls of a hook, in order; an exception or abort ends them.
RECURSIVE RunCalls(_, _, _)
RunCalls(w, c, calls) ==
    IF calls = <<>>
    THEN {w}
    ELSE UNION {IF v.run = "waiting" THEN RunCalls(v, c, Tail(calls)) ELSE {v} :
                   v \in Call(w, c, Head(calls))}

\* ------------------------------------------------------------- CrPipeCallbacks
Listen == [op |-> "Listen", data |-> <<>>]
AnyCall ==
    {Listen, [op |-> "Disconnect", data |-> <<>>]}
        \union {[op |-> "Send", data |-> ObserverData(n)] : n \in {1, M + 1}}

RECURSIVE CallSeqs(_)
CallSeqs(n) ==
    IF n = 0
    THEN {<<>>}
    ELSE CallSeqs(n - 1) \union {Append(s, a) : s \in CallSeqs(n - 1), a \in AnyCall}

\* A default implementation whose hooks listen twice.
DefaultCallsListenTwice(hook) ==
    IF hook = "OnDataReceived" THEN <<>> ELSE <<[op |-> "Listen", data |-> <<>>],
                                                [op |-> "Listen", data |-> <<>>]>>

\* Default implementation of CrPipeCallbacks: OnPipeConnected, OnPartialDataReceived
\* and OnDataSent call pipe.ListenForData(); OnDataReceived does nothing.
DefaultCalls(hook) ==
    IF hook = "OnDataReceived" THEN <<>> ELSE <<Listen>>

\* Notifications the observer has received so far, over all connections.
RECURSIVE Notified(_, _)
Notified(l, k) == IF k = 0 THEN 0 ELSE Notified(l, k - 1) + Len(l[k])

\* What the observer's hook does with the pipe: the default wiring, or (a class
\* derived from CrPipeCallbacks) any calls of the pipe's public methods for its
\* first notifications and the inherited default wiring afterwards.
HookCalls(w, c, hook) ==
    IF observer = "custom" /\ Notified(w.log, MaxConns) < MaxCustomHooks
    THEN CallSeqs(MaxHookCalls)
    ELSE {DefaultCalls(hook)}

\* An echo observer that keeps one accumulator for all pipes.
PipeHandleShared(e, c) == 1

\* EchoPipe: pipe.PipeHandle(), the key of partialDataAccumulators_.
PipeHandle(e, c) == e.handleOf[c]

\* EchoPipe::OnDataReceived's response: the prefix, then the complete data or
\* "<none>", resized to WriteBufSize when longer.
EchoResponse(complete) ==
    LET response == ResponsePrefix \o (IF Len(complete) > 0 THEN complete ELSE NoneText)
    IN  IF Len(response) > M THEN Take(response, M) ELSE response

\* An echo observer that does not limit its response.
EchoCallsUncut(c, hook, data) ==
    IF hook = "OnDataReceived"
    THEN LET acc == echo.acc[PipeHandle(echo, c)]
             complete == IF acc # <<>> THEN acc \o data ELSE data
         IN  <<[op |-> "Send",
                data |-> ResponsePrefix \o (IF Len(complete) > 0 THEN complete ELSE NoneText)]>>
    ELSE DefaultCalls(hook)

\* An echo observer whose OnDataSent does not call the base class.
EchoCallsNoRelisten(c, hook, data) ==
    IF hook = "OnDataReceived"
    THEN LET acc == echo.acc[PipeHandle(echo, c)]
             complete == IF acc # <<>> THEN acc \o data ELSE data
         IN  <<[op |-> "Send", data |-> EchoResponse(complete)]>>
    ELSE IF hook = "OnDataSent" THEN <<>> ELSE DefaultCalls(hook)

\* What the hooks of EchoPipe call on the pipe: OnDataReceived sends the
\* response to the complete data (the accumulated partial data, if any, and
\* this chunk); the other hooks call the base class, which listens.
EchoCalls(c, hook, data) ==
    IF hook = "OnDataReceived"
    THEN LET acc == echo.acc[PipeHandle(echo, c)]
             complete == IF acc # <<>> THEN acc \o data ELSE data
         IN  <<[op |-> "Send", data |-> EchoResponse(complete)]>>
    ELSE DefaultCalls(hook)

\* What EchoPipe's hook does to partialDataAccumulators_: OnPipeConnected
\* resets the pipe's entry, OnPartialDataReceived appends the chunk,
\* OnDataReceived clears the entry it used.
EchoNoted(e, c, note) ==
    LET h == PipeHandle(e, c)
    IN  CASE note.hook = "OnPipeConnected" -> [e EXCEPT !.acc[h] = <<>>]
          [] note.hook = "OnPartialDataReceived" -> [e EXCEPT !.acc[h] = @ \o note.data]
          [] note.hook = "OnDataReceived" -> [e EXCEPT !.acc[h] = <<>>]
          [] OTHER -> e

\* The handle values CreateNamedPipe can give connection c: one never used, or
\* the value of a closed handle (of a destroyed connection) that no connection
\* holds now.
HandleChoices(e, ps, c) ==
    {c} \cup ({e.handleOf[d] : d \in {d \in ConnId : ps[d].life = "destroyed"}}
                \ ({Null} \cup {e.handleOf[d] : d \in {d \in ConnId : ps[d].life = "live"}}))

\* The echo observer after a step of Run: the notification of the step, if
\* any, is noted, and a pipe created in the step has got its handle.
EchoAfter ==
    IF observer # "echo"
    THEN {echo}
    ELSE LET noted == {c \in ConnId : Len(log'[c]) > Len(log[c])}
             e1 == IF noted = {} THEN echo
                   ELSE LET c == CHOOSE c \in noted : TRUE
                        IN  EchoNoted(echo, c, log'[c][Len(log'[c])])
         IN  IF created' > created /\ run' = "waiting"
             THEN {[e1 EXCEPT !.handleOf[created'] = h] :
                      h \in HandleChoices(e1, [pipes' EXCEPT ![created'].life = "unborn"],
                                          created')}
             ELSE {e1}

\* callbacks_.<hook>(*this, data, size): the notification, then what the hook does.
Notify(w, c, hook, data) ==
    UNION {RunCalls([w EXCEPT !.log[c] = Append(@, [hook |-> hook, data |-> data])], c, calls) :
              calls \in IF observer = "echo"
                        THEN {EchoCalls(c, hook, data)}
                        ELSE HookCalls(w, c, hook)}

HasOp(os, kind) == \E i \in 1..Len(os) : os[i].kind = kind
FirstOp(os, kind) ==
    CHOOSE i \in 1..Len(os) : os[i].kind = kind /\ \A j \in 1..(i - 1) : os[j].kind # kind
RemoveAt(s, i) == SubSeq(s, 1, i - 1) \o SubSeq(s, i + 1, Len(s))

\* A Connect that does not signal the event when the client is already there.
ConnectNoSignal(w, c) ==
    LET w1 == [w EXCEPT !.pipes[c].self = c]
        w2 == [w1 EXCEPT !.sharedEvent = FALSE]
    IN  {[w1 EXCEPT !.run = "threw"],
         Step([w2 EXCEPT !.lastError = "IO_PENDING",
                         !.ops[c] = <<[kind |-> "connect", data |-> <<>>]>>,
                         !.pipes[c].ioStatus = "pending",
                         !.pipes[c].isConnectionPending = TRUE], c, "ConnectPending"),
         [w2 EXCEPT !.lastError = "PIPE_CONNECTED", !.client[c] = "attached"],
         [w2 EXCEPT !.lastError = "OTHER", !.run = "threw"]}

\* A Connect whose overlapped request leaves the event as it was.
ConnectNoReset(w, c) ==
    LET w1 == [w EXCEPT !.pipes[c].self = c]
    IN  {[w1 EXCEPT !.run = "threw"],
         Step([w1 EXCEPT !.lastError = "IO_PENDING",
                         !.ops[c] = <<[kind |-> "connect", data |-> <<>>]>>,
                         !.pipes[c].ioStatus = "pending",
                         !.pipes[c].isConnectionPending = TRUE], c, "ConnectPending"),
         [w1 EXCEPT !.lastError = "PIPE_CONNECTED",
                    !.client[c] = "attached",
                    !.sharedEvent = TRUE],
         [w1 EXCEPT !.lastError = "OTHER", !.run = "threw"]}

\* CrPipe::Connect: info_.Set(connectedEvent, this); CreateNamedPipe;
\* ConnectNamedPipe, then the switch on GetLastError().  The overlapped request
\* carries sharedEvent_ in hEvent: the system resets that event when the request
\* begins and signals it when the wait for a client completes.
Connect(w, c) ==
    LET w1 == [w EXCEPT !.pipes[c].self = c]
        w2 == [w1 EXCEPT !.sharedEvent = FALSE]
    IN  {[w1 EXCEPT !.run = "threw"],
         Step([w2 EXCEPT !.lastError = "IO_PENDING",
                         !.ops[c] = <<[kind |-> "connect", data |-> <<>>]>>,
                         !.pipes[c].ioStatus = "pending",
                         !.pipes[c].isConnectionPending = TRUE], c, "ConnectPending"),
         [w2 EXCEPT !.lastError = "PIPE_CONNECTED",
                    !.client[c] = "attached",
                    !.sharedEvent = TRUE],
         [w2 EXCEPT !.lastError = "OTHER", !.run = "threw"]}

\* CrPipe::OnConnected: finish a pending connect (GetOverlappedResult without
\* waiting, asserted to succeed), set isConnected_, call OnPipeConnected.
OnConnected(w, c) ==
    LET w1 == Enter(w, c)
        res == ~HasOp(w1.ops[c], "connect")
        w2 == IF w1.pipes[c].isConnectionPending
              THEN IF assertsOn /\ ~res
                   THEN [w1 EXCEPT !.run = "aborted"]
                   ELSE [w1 EXCEPT !.pipes[c].isConnectionPending = FALSE]
              ELSE w1
        w3 == Step([w2 EXCEPT !.pipes[c].isConnected = TRUE], c, "Connected")
    IN  IF w2.run # "waiting" THEN {w2} ELSE Notify(w3, c, "OnPipeConnected", <<>>)

\* GetOverlappedResult on the completed read: it fails with ERROR_MORE_DATA when
\* the message did not fit the buffer, and leaves the last error alone otherwise.
GetOverlappedResult(w, c) ==
    IF w.pipes[c].ioStatus = "moreData" THEN [w EXCEPT !.lastError = "MORE_DATA"] ELSE w

\* An OnReadCompleted that does not reset the last error after an overflow.
OnReadCompletedNoReset(w, c, err, numBytesRead) ==
    LET w1 == Enter(w, c)
        w2 == GetOverlappedResult(w1, c)
        haveOverflow == w2.lastError = "MORE_DATA"
        data == Take(w2.pipes[c].readBuffer, numBytesRead)
    IN  IF err
        THEN Disconnect(w1, c)
        ELSE IF haveOverflow
             THEN Notify(w2, c, "OnPartialDataReceived", data)
             ELSE Notify(w2, c, "OnDataReceived", data)

\* An OnReadCompleted that does not look at the error code.
OnReadCompletedIgnoringError(w, c, err, numBytesRead) ==
    LET w1 == Enter(w, c)
        w2 == GetOverlappedResult(w1, c)
        haveOverflow == w2.lastError = "MORE_DATA"
        data == Take(w2.pipes[c].readBuffer, numBytesRead)
    IN  IF haveOverflow
        THEN Notify([w2 EXCEPT !.lastError = "SUCCESS"], c, "OnPartialDataReceived", data)
        ELSE Notify(w2, c, "OnDataReceived", data)

\* CrPipe::OnReadCompleted.
OnReadCompleted(w, c, err, numBytesRead) ==
    LET w1 == Enter(w, c)
        w2 == GetOverlappedResult(w1, c)
        haveOverflow == w2.lastError = "MORE_DATA"
        data == Take(w2.pipes[c].readBuffer, numBytesRead)
    IN  IF err
        THEN Disconnect(w1, c)
        ELSE IF haveOverflow
             THEN Notify([w2 EXCEPT !.lastError = "SUCCESS"], c, "OnPartialDataReceived", data)
             ELSE Notify(w2, c, "OnDataReceived", data)

\* CrPipe::OnWriteCompleted.
OnWriteCompleted(w, c, err) ==
    LET w1 == Enter(w, c)
    IN  IF err THEN Disconnect(w1, c) ELSE Notify(w1, c, "OnDataSent", <<>>)

\* The pointers the completion routine can read from PipeInfo::self; the record
\* lives inside the CrPipe object, so after delete the read is stale.
ReadsSelf(w, c) ==
    IF w.pipes[c].life = "destroyed" THEN {Null, c} ELSE {w.pipes[c].self}

\* CrPipe::ReadCompleted (static): assert(self); if (self) self->OnReadCompleted.
ReadCompleted(w, c, err, numBytesRead) ==
    LET w1 == Enter(w, c)
    IN  UNION {IF self = Null
               THEN {IF assertsOn THEN [w1 EXCEPT !.run = "aborted"] ELSE w1}
               ELSE OnReadCompleted(w1, self, err, numBytesRead) :
                  self \in ReadsSelf(w, c)}

\* CrPipe::WriteCompleted (static).
WriteCompleted(w, c, err) ==
    LET w1 == Enter(w, c)
    IN  UNION {IF self = Null
               THEN {IF assertsOn THEN [w1 EXCEPT !.run = "aborted"] ELSE w1}
               ELSE OnWriteCompleted(w1, self, err) :
                  self \in ReadsSelf(w, c)}

\* ------------------------------------------------------------- CrPipeServer
\* The state a handler starts from: the trail restarts at each connection's
\* current protocol state.
RECURSIVE Restart(_, _)
Restart(t, k) ==
    IF k = 0
    THEN <<>>
    ELSE Append(Restart(t, k - 1), IF t[k] = <<>> THEN <<>> ELSE <<t[k][Len(t[k])]>>)

Entry == [World EXCEPT !.trail = Restart(trail, MaxConns)]

\* new CrPipe<N, M>(callbacks_): the next object, not yet connected.
New(w) ==
    Step([w EXCEPT !.created = @ + 1,
                   !.nextPipe = w.created + 1,
                   !.pipes[w.created + 1] = NewPipe], w.created + 1, "Idle")

\* CrPipeServer::SetPipeReadyEvent, called before Run.
SetPipeReadyEvent ==
    /\ run = "notStarted"
    /\ ~readyEvent.set
    /\ readyEvent' = [readyEvent EXCEPT !.set = TRUE]
    /\ UNCHANGED <<observer, assertsOn, run, nextPipe, created, pipes, sharedEvent,
                   lastError, ops, client, inbox, toClient, sent, log, faults, sends,
                   destroyed, staleUse, trail, echo, others>>

\* A Run that signals the ready event before it has connected the first pipe.
RunStartSignalFirst ==
    /\ run = "notStarted"
    /\ \E w \in Connect(New([Entry EXCEPT !.run = "waiting"]), 1) :
          /\ Commit(w)
          /\ readyEvent' = [readyEvent EXCEPT !.signalled = @ \/ readyEvent.set]
          /\ echo' \in EchoAfter
    /\ UNCHANGED <<observer, assertsOn, inbox, sent, others>>

\* CrPipeServer::Run up to the first wait: new, Connect, SetEvent(pipeReadyEvent_)
\* if one was set, then the loop.
RunStart ==
    /\ run = "notStarted"
    /\ \E w \in Connect(New([Entry EXCEPT !.run = "waiting"]), 1) :
          /\ Commit(w)
          /\ readyEvent' = [readyEvent EXCEPT
                               !.signalled = @ \/ (readyEvent.set /\ w.run = "waiting")]
          /\ echo' \in EchoAfter
    /\ UNCHANGED <<observer, assertsOn, inbox, sent, others>>

\* A loop that connects the pipe it already has instead of a new one.
AcceptReuse(w) == Connect(w, w.nextPipe)

\* nextPipe = new CrPipe; nextPipe->Connect.  When the model has no object left,
\* new fails and the exception leaves Run.
Accept(w) ==
    IF w.created = MaxConns
    THEN {[w EXCEPT !.run = "threw"]}
    ELSE Connect(New(w), w.created + 1)

\* CrPipeServer::Run, case 0 of the wait: the shared event is signalled.
\* nextPipe->OnConnected(); then the next pipe is created and connected.
OnConnectEvent(w) ==
    UNION {IF v.run = "waiting" THEN Accept(v) ELSE {v} : v \in OnConnected(w, w.nextPipe)}

ConnectEvent ==
    /\ run = "waiting"
    /\ sharedEvent
    /\ \E w \in OnConnectEvent(Entry) :
          /\ Commit(w)
          /\ echo' \in EchoAfter
    /\ UNCHANGED <<observer, assertsOn, inbox, sent, readyEvent, others>>

\* The messages the next completed read can take its bytes from: the rest of the
\* message a previous read left unfinished, or a message the client writes.
Readable(c) ==
    IF inbox[c] # <<>>
    THEN {Head(inbox[c])}
    ELSE IF client[c] = "attached" /\ Len(sent[c]) < MaxMsgs
         THEN {ClientMsg(Len(sent[c]) + 1, k) : k \in 0..MaxMsgLen}
         ELSE {}

\* The alertable wait runs the completion routine of a finished read.  The
\* system has filled readBuffer_ and the OVERLAPPED status before the call: the
\* next N bytes of the client's message, with more data left when the message
\* is longer, or an error.
DeliverRead(c) ==
    /\ run = "waiting"
    /\ HasOp(ops[c], "read")
    /\ \E err \in BOOLEAN :
          \E msg \in IF err THEN {<<>>} ELSE IF pipes[c].life = "live" THEN Readable(c) ELSE {} :
             LET chunk == Take(msg, N)
                 status == IF err THEN "error"
                           ELSE IF Len(msg) > N THEN "moreData" ELSE "success"
                 w0 == [Entry EXCEPT !.ops[c] = RemoveAt(@, FirstOp(@, "read")),
                                     !.pipes[c].readBuffer = CopyInto(@, chunk),
                                     !.pipes[c].ioStatus = status]
                 w1 == IF pipes[c].life = "live" THEN Step(w0, c, "Connected") ELSE w0
                 w2 == IF err THEN Fault(w1, c) ELSE w1
             IN  /\ \E w \in ReadCompleted(w2, c, err, Len(chunk)) :
                        /\ Commit(w)
                        /\ echo' \in EchoAfter
                 /\ inbox' = IF err THEN inbox
                             ELSE [inbox EXCEPT ![c] = IF Len(msg) > N THEN <<Drop(msg, N)>> ELSE <<>>]
                 /\ sent' = IF err \/ inbox[c] # <<>> THEN sent
                            ELSE [sent EXCEPT ![c] = Append(@, msg)]
    /\ UNCHANGED <<observer, assertsOn, readyEvent, others>>

\* The bytes a completed write has put on the pipe: those writeBuffer_ held when
\* the write was issued, or, when a later SendData has overwritten the buffer
\* while the write was in flight, possibly those it holds now.
Written(c, op) ==
    {op.data, Take(pipes[c].writeBuffer, Len(op.data))}

\* The alertable wait runs the completion routine of a finished write.
DeliverWrite(c) ==
    /\ run = "waiting"
    /\ HasOp(ops[c], "write")
    /\ \E err \in BOOLEAN :
          \E data \in IF err THEN {<<>>}
                       ELSE IF pipes[c].life = "live"
                            THEN Written(c, ops[c][FirstOp(ops[c], "write")])
                            ELSE {} :
             LET w0 == [Entry EXCEPT !.ops[c] = RemoveAt(@, FirstOp(@, "write")),
                                     !.pipes[c].ioStatus = IF err THEN "error" ELSE "success",
                                     !.toClient[c] = IF err THEN @ ELSE Append(@, data)]
                 w1 == IF pipes[c].life = "live" THEN Step(w0, c, "Connected") ELSE w0
                 w2 == IF err THEN Fault(w1, c) ELSE w1
             IN  \E w \in WriteCompleted(w2, c, err) : Commit(w)
    /\ UNCHANGED <<observer, assertsOn, inbox, sent, readyEvent, echo, others>>

\* A caller that holds a connection which is not connected yet calls
\* ListenForData or SendData on it.
CallBeforeConnected ==
    /\ run = "waiting"
    /\ \E c \in ConnId, call \in {Listen, [op |-> "Send", data |-> ObserverData(1)]} :
          /\ pipes[c].life = "live"
          /\ ~pipes[c].isConnected
          /\ \E w \in Call(World, c, call) : Commit(w)
    /\ UNCHANGED <<observer, assertsOn, inbox, sent, readyEvent, echo, others>>

\* ------------------------------------------------------------- environment
\* A client opens the pipe instance that waits for one: the pending connect
\* completes and the system signals the event of its OVERLAPPED.
ClientConnect(c) ==
    /\ run = "waiting"
    /\ pipes[c].life = "live"
    /\ client[c] = "absent"
    /\ HasOp(ops[c], "connect")
    /\ client' = [client EXCEPT ![c] = "attached"]
    /\ ops' = [ops EXCEPT ![c] = RemoveAt(@, FirstOp(@, "connect"))]
    /\ pipes' = [pipes EXCEPT ![c].ioStatus = "success"]
    /\ sharedEvent' = TRUE
    /\ UNCHANGED <<observer, assertsOn, run, nextPipe, created, lastError, inbox,
                   toClient, sent, log, faults, sends, destroyed, staleUse, trail,
                   readyEvent, echo, others>>

\* ------------------------------------------------------------- the dispatch thread
\* Run's thread at the grain of its calls: `stack` holds the handlers it is
\* inside (empty: it sits in WaitForSingleObjectEx), `inflight` the overlapped
\* reads and writes the system has accepted, `apc` the completion routines
\* queued to the thread that issued them, `order` the connections whose
\* routines ran, in the order they ran.
MaxCompletions == 4

server == <<observer, assertsOn, run, nextPipe, created, pipes, sharedEvent, lastError,
            ops, client, inbox, toClient, sent, log, faults, sends, destroyed, staleUse,
            trail, readyEvent, echo>>

\* Before Run: sharedEvent_ is signalled, nothing is in flight.
DispatchIdle ==
    [state |-> "notStarted", stack |-> <<>>, apc |-> <<>>, inflight |-> {},
     event |-> TRUE, made |-> 0, pending |-> FALSE, handled |-> 0, order |-> <<>>]

IoKinds == {"read", "write"}

\* Every point of the thread is alertable.
AlertableAnywhere(st) == TRUE

\* The thread is alertable only inside WaitForSingleObjectEx(.., INFINITE, TRUE);
\* no handler and no default hook waits.
Alertable(st) == st = <<>>

\* Where a handler is entered from.
EnteredFrom(st) == IF st = <<>> THEN "wait" ELSE st[Len(st)].kind

\* The operations a handler running on thread t may issue on connection c: any
\* of ReadFileEx and WriteFileEx that is not already outstanding there.
Issuable(d, c, t) ==
    SUBSET {[kind |-> k, conn |-> c, thread |-> t] : k \in
               {k \in IoKinds :
                   /\ \A o \in d.inflight : ~(o.conn = c /\ o.kind = k)
                   /\ \A i \in DOMAIN d.apc : ~(d.apc[i].conn = c /\ d.apc[i].kind = k)}}

\* new CrPipe and Connect of Run: the connect is pending and the event reset, or
\* the client was already there and the event is set.
DConnect(d) ==
    IF d.made = MaxConns
    THEN {[d EXCEPT !.state = "threw"]}
    ELSE {[d EXCEPT !.made = @ + 1, !.pending = TRUE, !.event = FALSE],
          [d EXCEPT !.made = @ + 1, !.pending = FALSE, !.event = TRUE]}

\* Run up to the loop.
DRun ==
    /\ dispatch.state = "notStarted"
    /\ dispatch' \in DConnect([dispatch EXCEPT !.state = "running"])
    /\ UNCHANGED <<server, clients, codec>>

\* The system finishes the pending ConnectNamedPipe: it signals the event.
DClientConnects ==
    /\ dispatch.state = "running"
    /\ dispatch.pending
    /\ dispatch' = [dispatch EXCEPT !.pending = FALSE, !.event = TRUE]
    /\ UNCHANGED <<server, clients, codec>>

\* The system finishes an overlapped read or write, whatever the thread is
\* doing: it queues the completion routine to the thread that issued it.
DComplete(o) ==
    /\ dispatch.state = "running"
    /\ o \in dispatch.inflight
    /\ dispatch' = [dispatch EXCEPT !.inflight = @ \ {o}, !.apc = Append(@, o)]
    /\ UNCHANGED <<server, clients, codec>>

\* The wait returns 0: case 0 of the loop begins.
DCase0Begin ==
    /\ dispatch.state = "running"
    /\ dispatch.stack = <<>>
    /\ dispatch.event
    /\ dispatch' = [dispatch EXCEPT
                       !.stack = Append(@, [kind |-> "connect", conn |-> dispatch.made,
                                            thread |-> "dispatch", from |-> "wait"])]
    /\ UNCHANGED <<server, clients, codec>>

\* Case 0 ends: OnConnected ran its hook, which issued what it chose, and the
\* next pipe is created and connected.
DCase0End ==
    /\ dispatch.stack # <<>>
    /\ LET f == dispatch.stack[Len(dispatch.stack)]
       IN  /\ f.kind = "connect"
           /\ \E issued \in Issuable(dispatch, f.conn, f.thread) :
                 dispatch' \in DConnect([dispatch EXCEPT
                                            !.stack = SubSeq(@, 1, Len(@) - 1),
                                            !.inflight = @ \cup issued])
    /\ UNCHANGED <<server, clients, codec>>

\* The system calls the next queued completion routine (ReadCompleted or
\* WriteCompleted) on the thread it was queued to, when that thread is alertable.
DRoutineBegin ==
    /\ dispatch.state = "running"
    /\ dispatch.apc # <<>>
    /\ Alertable(dispatch.stack)
    /\ dispatch.handled < MaxCompletions
    /\ LET a == Head(dispatch.apc)
       IN  dispatch' = [dispatch EXCEPT
                           !.apc = Tail(@),
                           !.stack = Append(@, [kind |-> a.kind, conn |-> a.conn,
                                                thread |-> a.thread,
                                                from |-> EnteredFrom(dispatch.stack)]),
                           !.handled = @ + 1,
                           !.order = Append(@, a.conn)]
    /\ UNCHANGED <<server, clients, codec>>

\* The completion routine returns: its handler and hook issued what they chose.
\* When the queue is empty the wait returns WAIT_IO_COMPLETION and the loop
\* waits again.
DRoutineEnd ==
    /\ dispatch.stack # <<>>
    /\ LET f == dispatch.stack[Len(dispatch.stack)]
       IN  /\ f.kind \in IoKinds
           /\ \E issued \in Issuable(dispatch, f.conn, f.thread) :
                 dispatch' = [dispatch EXCEPT
                                 !.stack = SubSeq(@, 1, Len(@) - 1),
                                 !.inflight = @ \cup issued]
    /\ UNCHANGED <<server, clients, codec>>

\* ------------------------------------------------------------- the client pipe
\* ClientPipe objects live in named slots; `handles` lists the handles the
\* system opened for them (a handle's value is its index), with the number of
\* CloseHandle calls made on each and its read mode; `last` records the last
\* call with the system's answers and the result.
MaxHandles == 2
MaxMoves == 1
Slots == {"a", "b"}

NULL == 0
INVALID_HANDLE_VALUE == -1

NoCall == [op |-> "none"]

NoClients ==
    [objs |-> [s \in Slots |-> [alive |-> FALSE, h |-> NULL]],
     handles |-> <<>>, moves |-> 0, last |-> NoCall]

\* Handle::operator bool, ClientPipe::IsConnected.
IsConnected(h) == h # NULL /\ h # INVALID_HANDLE_VALUE

\* CloseHandle(h): counts on a handle the system opened, fails on NULL and
\* INVALID_HANDLE_VALUE.
CloseHandle(cl, h) ==
    IF IsConnected(h) THEN [cl EXCEPT !.handles[h].closes = @ + 1] ELSE cl

\* What CreateFile answers: when the name exists an instance is free ("ok"),
\* all are busy, or the call fails otherwise; when no pipe of that name exists
\* it fails with ERROR_FILE_NOT_FOUND.
OpenAnswers(exists) ==
    IF exists THEN {"ok", "PIPE_BUSY", "OTHER"} ELSE {"FILE_NOT_FOUND"}

\* What WaitNamedPipe answers: when no instance of the name exists it returns
\* at once with an error, whatever the time-out.
WaitAnswers(exists) ==
    IF exists THEN {"ok", "SEM_TIMEOUT", "OTHER"} ELSE {"FILE_NOT_FOUND"}

ModeAnswers == {"ok", "fail"}

\* ClientPipe::ConnectPipeImmediately on a call in progress k: CreateFile into
\* pipeHandle_.h, throw unless it worked or all instances are busy, then switch
\* the handle to message read mode.
ConnectPipeImmediately(k, s, open, mode) ==
    LET k1 == [k EXCEPT !.opens = Append(@, open)]
        id == Len(k.cl.handles) + 1
    IN  IF open = "ok"
        THEN LET k2 == [k1 EXCEPT !.cl.handles = Append(@, [closes |-> 0, mode |-> "byte"]),
                                  !.cl.objs[s].h = id,
                                  !.modes = Append(@, mode)]
             IN  IF mode = "ok"
                 THEN [k2 EXCEPT !.cl.handles[id].mode = "message", !.result = "true"]
                 ELSE [k2 EXCEPT !.result = "error"]
        ELSE LET k2 == [k1 EXCEPT !.cl.objs[s].h = INVALID_HANDLE_VALUE]
             IN  IF open # "PIPE_BUSY"
                 THEN [k2 EXCEPT !.result = "error"]
                 ELSE [k2 EXCEPT !.result = "false"]

\* ClientPipe::WaitForPipe: true when an instance became available, false on
\* ERROR_SEM_TIMEOUT, throw otherwise.
WaitForPipe(k, wait) ==
    LET k1 == [k EXCEPT !.waits = Append(@, wait)]
    IN  IF wait = "ok" THEN [k1 EXCEPT !.result = "true"]
        ELSE IF wait # "SEM_TIMEOUT" THEN [k1 EXCEPT !.result = "error"]
        ELSE [k1 EXCEPT !.result = "false"]

\* A Connect that takes every failed wait for an expired one.
ClientPipeConnectSwallowing(cl, s, exists, o1, m1, wait, o2, m2) ==
    LET k0 == [op |-> "Connect", slot |-> s, exists |-> exists, cl |-> cl,
               opens |-> <<>>, waits |-> <<>>, modes |-> <<>>, result |-> "none"]
        k1 == ConnectPipeImmediately(k0, s, o1, m1)
        k2 == WaitForPipe(k1, wait)
    IN  IF k1.result # "false" THEN k1
        ELSE IF k2.result = "true" THEN ConnectPipeImmediately(k2, s, o2, m2)
        ELSE [k2 EXCEPT !.result = "false"]

\* ClientPipe::Connect with the system's answers to the calls it may make.
ClientPipeConnect(cl, s, exists, o1, m1, wait, o2, m2) ==
    LET k0 == [op |-> "Connect", slot |-> s, exists |-> exists, cl |-> cl,
               opens |-> <<>>, waits |-> <<>>, modes |-> <<>>, result |-> "none"]
        k1 == ConnectPipeImmediately(k0, s, o1, m1)
        k2 == WaitForPipe(k1, wait)
    IN  IF k1.result # "false" THEN k1
        ELSE IF k2.result = "true" THEN ConnectPipeImmediately(k2, s, o2, m2)
        ELSE k2

\* ClientPipe::Disconnect: CloseHandle(pipeHandle_.h); pipeHandle_.h = NULL.
ClientPipeDisconnect(cl, s) ==
    [CloseHandle(cl, cl.objs[s].h) EXCEPT !.objs[s].h = NULL]

\* ReadFile of at most N bytes from a message-mode pipe: it fails with
\* ERROR_MORE_DATA when the rest of the message is longer, or with another
\* error, reading nothing.
ReadFile(rest, fails) ==
    IF fails THEN [ok |-> FALSE, err |-> "OTHER", bytes |-> <<>>]
    ELSE IF Len(rest) > N
         THEN [ok |-> FALSE, err |-> "MORE_DATA", bytes |-> Take(rest, N)]
         ELSE [ok |-> TRUE, err |-> "SUCCESS", bytes |-> rest]

\* A read loop that hands the sink its buffer before it looks at the error.
RECURSIVE WaitForDataPutFirst(_, _, _, _)
WaitForDataPutFirst(rest, puts, i, failAt) ==
    LET r == ReadFile(rest, i = failAt)
        p2 == Append(puts, r.bytes)
    IN  IF ~r.ok /\ r.err # "MORE_DATA" THEN [puts |-> p2, result |-> "error"]
        ELSE IF r.ok THEN [puts |-> p2, result |-> "ok"]
        ELSE WaitForDataPutFirst(Drop(rest, N), p2, i + 1, failAt)

\* The loop of ClientPipe::WaitForData from its i-th read on: read, throw on an
\* error other than ERROR_MORE_DATA, Put what was read, until a read succeeds.
RECURSIVE WaitForData(_, _, _, _)
WaitForData(rest, puts, i, failAt) ==
    LET r == ReadFile(rest, i = failAt)
        p2 == Append(puts, r.bytes)
    IN  IF ~r.ok /\ r.err # "MORE_DATA" THEN [puts |-> puts, result |-> "error"]
        ELSE IF r.ok THEN [puts |-> p2, result |-> "ok"]
        ELSE WaitForData(Drop(rest, N), p2, i + 1, failAt)

\* ClientPipe(): pipeHandle_ starts as NULL.
CConstruct(s) ==
    /\ ~clients.objs[s].alive
    /\ clients' = [clients EXCEPT !.objs[s] = [alive |-> TRUE, h |-> NULL],
                                  !.last = [op |-> "Construct", slot |-> s]]
    /\ UNCHANGED <<server, dispatch, codec>>

\* Connect on an object, against a name that exists or not; the system answers
\* the calls Connect makes.
CConnect(s) ==
    /\ clients.objs[s].alive
    /\ \E exists \in BOOLEAN :
       \E o1 \in OpenAnswers(exists) :
       \E m1 \in (IF o1 = "ok" THEN ModeAnswers ELSE {"ok"}) :
       \E wait \in (IF o1 = "PIPE_BUSY" THEN WaitAnswers(exists) ELSE {"ok"}) :
       \E o2 \in (IF o1 = "PIPE_BUSY" /\ wait = "ok" THEN OpenAnswers(exists) ELSE {"ok"}) :
       \E m2 \in (IF o1 = "PIPE_BUSY" /\ wait = "ok" /\ o2 = "ok" THEN ModeAnswers ELSE {"ok"}) :
          LET k == ClientPipeConnect(clients, s, exists, o1, m1, wait, o2, m2)
          IN  /\ Len(k.cl.handles) <= MaxHandles
              /\ clients' = [k.cl EXCEPT !.last = [op |-> "Connect", slot |-> s,
                                                    exists |-> exists, opens |-> k.opens,
                                                    waits |-> k.waits, modes |-> k.modes,
                                                    result |-> k.result]]
    /\ UNCHANGED <<server, dispatch, codec>>

\* Disconnect on an object, connected or not.
CDisconnect(s) ==
    /\ clients.objs[s].alive
    /\ clients' = [ClientPipeDisconnect(clients, s) EXCEPT
                      !.last = [op |-> "Disconnect", slot |-> s]]
    /\ UNCHANGED <<server, dispatch, codec>>

\* ClientPipe(ClientPipe&&) = default with Handle(Handle&&) = default: the new
\* object's h is a copy of the source's, which keeps its value.
CMoveConstruct(src, dst) ==
    /\ clients.objs[src].alive
    /\ ~clients.objs[dst].alive
    /\ clients.moves < MaxMoves
    /\ clients' = [clients EXCEPT !.objs[dst] = [alive |-> TRUE, h |-> clients.objs[src].h],
                                  !.moves = @ + 1,
                                  !.last = [op |-> "MoveConstruct", slot |-> dst]]
    /\ UNCHANGED <<server, dispatch, codec>>

\* operator=(ClientPipe&&) = default: h is overwritten with the source's, the
\* handle it held is not closed.
CMoveAssign(src, dst) ==
    /\ src # dst
    /\ clients.objs[src].alive
    /\ clients.objs[dst].alive
    /\ clients.moves < MaxMoves
    /\ clients' = [clients EXCEPT !.objs[dst].h = clients.objs[src].h,
                                  !.moves = @ + 1,
                                  !.last = [op |-> "MoveAssign", slot |-> dst]]
    /\ UNCHANGED <<server, dispatch, codec>>

\* ~ClientPipe: Disconnect when connected; then ~Handle, which closes h unless
\* it is NULL or INVALID_HANDLE_VALUE.
CDestroy(s) ==
    /\ clients.objs[s].alive
    /\ LET c1 == IF IsConnected(clients.objs[s].h)
                 THEN ClientPipeDisconnect(clients, s) ELSE clients
           c2 == CloseHandle(c1, c1.objs[s].h)
       IN  clients' = [c2 EXCEPT !.objs[s].alive = FALSE,
                                 !.last = [op |-> "Destroy", slot |-> s]]
    /\ UNCHANGED <<server, dispatch, codec>>

\* WaitForData on a connected object while a message of k bytes comes in; the
\* failAt-th read fails (none when 0; the first one when the handle is closed).
CWaitForData(s) ==
    /\ clients.objs[s].alive
    /\ IsConnected(clients.objs[s].h)
    /\ \E k \in 0..MaxMsgLen :
       \E f \in 0..(k + 1) :
          LET failAt == IF clients.handles[clients.objs[s].h].closes > 0 THEN 1 ELSE f
              r == WaitForData(ClientMsg(1, k), <<>>, 1, failAt)
          IN  clients' = [clients EXCEPT
                             !.last = [op |-> "WaitForData", slot |-> s,
                                       msg |-> ClientMsg(1, k), failAt |-> failAt,
                                       puts |-> r.puts, result |-> r.result]]
    /\ UNCHANGED <<server, dispatch, codec>>

\* ------------------------------------------------------------- the codec
\* serialize / deserialize of src/serialization.h over byte vectors.  A value
\* of a primitive type is its sizeof and its number; its bytes are little
\* endian.  size_t is SizeBytes bytes wide; a string is a sequence of character
\* units of one width.
SizeBytes == 1
MaxStrLen == 3
MaxBufLen == 3

SizeMod == 2 ^ (8 * SizeBytes)

NoCodec == [op |-> "none"]

\* sizeof of the primitive types and of the character unit types tried.
PrimitiveSizes == {1, 2}
CharWidths == {1, 2}
\* Values of a type of sz bytes, and character units of width cw, tried.
PrimitiveValues(sz) == {0, 1, 200, 256 ^ sz - 1}
CharUnits(cw) == {0, 97, 256 ^ cw - 2}

\* All strings of at most k units of width cw.
RECURSIVE Strings(_, _)
Strings(cw, k) ==
    IF k = 0 THEN {<<>>}
    ELSE Strings(cw, k - 1) \cup
         {Append(t, u) : t \in {t \in Strings(cw, k - 1) : Len(t) = k - 1},
                         u \in CharUnits(cw)}

\* The object representation of a number in sz bytes, and back.
RECURSIVE ToBytes(_, _)
ToBytes(val, sz) ==
    IF sz = 0 THEN <<>> ELSE <<val % 256>> \o ToBytes(val \div 256, sz - 1)

RECURSIVE FromBytes(_)
FromBytes(bytes) ==
    IF bytes = <<>> THEN 0 ELSE Head(bytes) + 256 * FromBytes(Tail(bytes))

\* VectorSerializationBufferAdapter::Put: append to the vector.
Put(target, bytes) == target \o bytes

\* serialize of a primitive: Put(&val, sizeof(val)).
serialize(val, sz, target) == Put(target, ToBytes(val, sz))

\* The units of a string as bytes: str.data(), len * sizeof(TChar).
RECURSIVE UnitBytes(_, _)
UnitBytes(str, cw) ==
    IF str = <<>> THEN <<>> ELSE ToBytes(Head(str), cw) \o UnitBytes(Tail(str), cw)

\* serialize of a basic_string: len + 1 as size_t, the units, a zero unit.
serializeString(str, cw, target) ==
    LET t1 == serialize((Len(str) + 1) % SizeMod, SizeBytes, target)
        t2 == Put(t1, UnitBytes(str, cw))
    IN  serialize(0, cw, t2)

\* VectorDeserializationBufferAdapter::Take on a source [buf, pos]: nullptr for
\* 0 bytes, throw when dataSize > buffer_.size() - pos_ in size_t arithmetic,
\* else the pointer buffer_.data() + pos_, and pos_ moves on.
SourceTake(src, dataSize) ==
    IF dataSize = 0 THEN [src |-> src, result |-> "null", ptr |-> 0]
    ELSE IF dataSize > (Len(src.buf) - src.pos) % SizeMod
         THEN [src |-> src, result |-> "error", ptr |-> 0]
         ELSE [src |-> [src EXCEPT !.pos = (@ + dataSize) % SizeMod],
               result |-> "range", ptr |-> src.pos]

\* The k bytes at a pointer into the buffer; bytes outside the vector have
\* whatever value junk is.
Memory(buf, ptr, k, junk) ==
    [i \in 1..k |-> IF ptr + i <= Len(buf) THEN buf[ptr + i] ELSE junk]

\* deserialize of a primitive of sz bytes: *reinterpret_cast<const T*>(Take(sizeof(T))).
deserialize(src, sz, junk) ==
    LET t == SourceTake(src, sz)
    IN  IF t.result = "error" THEN [src |-> t.src, result |-> "error", val |-> 0]
        ELSE [src |-> t.src, result |-> "value",
              val |-> FromBytes(Memory(src.buf, t.ptr, sz, junk))]

\* basic_string(const Char_t*): the units from the pointer up to the first zero
\* unit; a read that leaves the vector ends the string there.
RECURSIVE CString(_, _, _)
CString(buf, ptr, cw) ==
    IF ptr + cw > Len(buf) THEN <<>>
    ELSE LET u == FromBytes(SubSeq(buf, ptr + 1, ptr + cw))
         IN  IF u = 0 THEN <<>> ELSE <<u>> \o CString(buf, ptr + cw, cw)

\* deserialize of a basic_string: the length as size_t, Take(lenPlusTerminator),
\* and the string constructed from the pointer.
deserializeString(src, cw, junk) ==
    LET n == deserialize(src, SizeBytes, junk)
        t == SourceTake(n.src, n.val)
    IN  IF n.result = "error" \/ t.result = "error"
        THEN [src |-> t.src, result |-> "error", val |-> <<>>]
        ELSE IF t.result = "null"
        THEN [src |-> t.src, result |-> "undefined", val |-> <<>>]
        ELSE [src |-> t.src, result |-> "value", val |-> CString(src.buf, t.ptr, cw)]

\* A primitive written to an empty vector and read back from it.
KPrimitive ==
    \E sz \in PrimitiveSizes : \E x \in PrimitiveValues(sz) :
       LET bytes == serialize(x, sz, <<>>)
           d == deserialize([buf |-> bytes, pos |-> 0], sz, 0)
       IN  /\ codec' = [op |-> "primitive", width |-> sz, x |-> x, bytes |-> bytes,
                        result |-> d.result, y |-> d.val, consumed |-> d.src.pos]
           /\ UNCHANGED <<server, dispatch, clients>>

\* A string and then a one-byte value written to an empty vector, and both
\* read back from it.
KString ==
    \E cw \in CharWidths : \E x \in Strings(cw, MaxStrLen) : \E next \in {1, 200} :
       LET bytes == serializeString(x, cw, <<>>)
           all == serialize(next, 1, bytes)
           d == deserializeString([buf |-> all, pos |-> 0], cw, 0)
           e == deserialize(d.src, 1, 0)
       IN  /\ codec' = [op |-> "string", width |-> cw, x |-> x, bytes |-> bytes,
                        result |-> d.result, y |-> d.val, consumed |-> d.src.pos,
                        next |-> next, nextResult |-> e.result, z |-> e.val]
           /\ UNCHANGED <<server, dispatch, clients>>

\* Take(n) on a source constructed over a vector of size bytes at position pos.
KTake ==
    \E size \in 0..MaxBufLen : \E pos \in 0..(MaxBufLen + 1) : \E n \in 0..(MaxBufLen + 1) :
       LET t == SourceTake([buf |-> Zeros(size), pos |-> pos], n)
       IN  /\ codec' = [op |-> "take", size |-> size, pos |-> pos, n |-> n,
                        result |-> t.result, ptr |-> t.ptr, after |-> t.src.pos]
           /\ UNCHANGED <<server, dispatch, clients>>

\* A serialized primitive or string with its last bytes missing, read back:
\* `declared` is the number of bytes the failing or last Take was asked for,
\* `avail` the bytes that were left for it, `consumed` the source's position
\* after the call (it was 0 before).
KShort ==
    \E cw \in CharWidths : \E x \in Strings(cw, 2) : \E cut \in 1..2 : \E str \in BOOLEAN :
       LET whole == IF str THEN serializeString(x, cw, <<>>) ELSE serialize(200, cw, <<>>)
           bytes == SubSeq(whole, 1, Len(whole) - Min(cut, Len(whole)))
           src == [buf |-> bytes, pos |-> 0]
           n == deserialize(src, SizeBytes, 0)
           d == IF str THEN deserializeString(src, cw, 0) ELSE deserialize(src, cw, 0)
           first == IF str THEN SizeBytes ELSE cw
       IN  /\ codec' = [op |-> "short", isString |-> str, width |-> cw, whole |-> whole,
                        bytes |-> bytes, result |-> d.result, consumed |-> d.src.pos,
                        declared |-> IF str /\ n.result = "value" THEN n.val ELSE first,
                        avail |-> IF str /\ n.result = "value"
                                  THEN Len(bytes) - SizeBytes ELSE Len(bytes)]
           /\ UNCHANGED <<server, dispatch, clients>>

\* ------------------------------------------------------------- specification
\* EchoPipe's constructor: no accumulator; no pipe has a handle yet.
NoEcho == [acc |-> [h \in ConnId |-> <<>>], handleOf |-> [c \in ConnId |-> Null]]


\* CrPipeServer's constructor: sharedEvent_ is created signalled
\* (CreateEvent(nullptr, TRUE, TRUE, nullptr)); no pipe exists yet and
\* pipeReadyEvent_ is NULL.
ServerState ==
    /\ assertsOn \in BOOLEAN
    /\ run = "notStarted"
    /\ nextPipe = Null
    /\ created = 0
    /\ pipes = [c \in ConnId |-> NoPipe]
    /\ sharedEvent = TRUE
    /\ lastError = "SUCCESS"
    /\ ops = [c \in ConnId |-> <<>>]
    /\ client = [c \in ConnId |-> "absent"]
    /\ inbox = [c \in ConnId |-> <<>>]
    /\ toClient = [c \in ConnId |-> <<>>]
    /\ sent = [c \in ConnId |-> <<>>]
    /\ log = [c \in ConnId |-> <<>>]
    /\ faults = [c \in ConnId |-> <<>>]
    /\ sends = [c \in ConnId |-> <<>>]
    /\ destroyed = [c \in ConnId |-> 0]
    /\ staleUse = [c \in ConnId |-> FALSE]
    /\ trail = [c \in ConnId |-> <<>>]
    /\ readyEvent = [set |-> FALSE, signalled |-> FALSE]
    /\ echo = NoEcho

\* The server is given a default or a custom observer.
ServerInit ==
    /\ observer \in Observers
    /\ ServerState

\* Nothing but the server exists: no call is in progress on the dispatch
\* thread model, no ClientPipe object and no codec buffer.
Init ==
    /\ ServerInit
    /\ dispatch = DispatchIdle
    /\ clients = NoClients
    /\ codec = NoCodec

Next ==
    \/ RunStart
    \/ ConnectEvent
    \/ \E c \in ConnId : DeliverRead(c)
    \/ \E c \in ConnId : DeliverWrite(c)
    \/ \E c \in ConnId : ClientConnect(c)
    \/ CallBeforeConnected

Spec == Init /\ [][Next]_vars

\* The server with the default observer, which never sends: no write is ever
\* outstanding.  The dispatch loop's wait returns when the shared event is
\* signalled: the event is manual-reset and stays signalled until the loop has
\* served it, so the connect event is taken if it stays possible.
DefaultInit == Init /\ observer = "default"

LoopNext ==
    \/ RunStart
    \/ ConnectEvent
    \/ \E c \in ConnId : DeliverRead(c)
    \/ \E c \in ConnId : ClientConnect(c)
    \/ CallBeforeConnected

FairSpec == DefaultInit /\ [][LoopNext]_vars /\ WF_vars(ConnectEvent)

\* The same server, whose caller may set a ready event before it calls Run.
ReadyNext ==
    \/ SetPipeReadyEvent
    \/ LoopNext

ReadySpec == DefaultInit /\ [][ReadyNext]_vars

\* The dispatch thread alone, at the grain of its calls.
DispatchInit ==
    /\ Init
    /\ observer = "default"
    /\ assertsOn

DispatchNext ==
    \/ DRun
    \/ DClientConnects
    \/ \E o \in dispatch.inflight : DComplete(o)
    \/ DCase0Begin
    \/ DCase0End
    \/ DRoutineBegin
    \/ DRoutineEnd

DispatchSpec == DispatchInit /\ [][DispatchNext]_vars

\* Client pipe objects alone: every call sequence on up to two objects.
ClientInit ==
    /\ Init
    /\ observer = "default"
    /\ assertsOn

ClientNext ==
    \/ \E s \in Slots : CConstruct(s)
    \/ \E s \in Slots : CConnect(s)
    \/ \E s \in Slots : CDisconnect(s)
    \/ \E s, d \in Slots : CMoveConstruct(s, d)
    \/ \E s, d \in Slots : CMoveAssign(s, d)
    \/ \E s \in Slots : CDestroy(s)
    \/ \E s \in Slots : CWaitForData(s)

ClientSpec == ClientInit /\ [][ClientNext]_vars

\* The codec alone: one call after another on fresh vectors.
CodecInit ==
    /\ Init
    /\ observer = "default"
    /\ assertsOn

CodecNext ==
    \/ KPrimitive
    \/ KString
    \/ KTake
    \/ KShort

CodecSpec == CodecInit /\ [][CodecNext]_vars

\* The server of the echo test: CrPipeServer given an EchoPipe.
EchoInit ==
    /\ observer = "echo"
    /\ ServerState
    /\ dispatch = DispatchIdle
    /\ clients = NoClients
    /\ codec = NoCodec

EchoSpec == EchoInit /\ [][Next]_vars

\* The echo server with clients that write an empty message or one of the
\* greatest length.
ShortOrLongRead(c) ==
    /\ DeliverRead(c)
    /\ \A i \in DOMAIN sent'[c] : Len(sent'[c][i]) \in {0, MaxMsgLen}

EchoFairNext ==
    \/ RunStart
    \/ ConnectEvent
    \/ \E c \in ConnId : ShortOrLongRead(c)
    \/ \E c \in ConnId : DeliverWrite(c)
    \/ \E c \in ConnId : ClientConnect(c)
    \/ CallBeforeConnected

\* That server under fair delivery of completions: the alertable wait runs the
\* completion routine of a write that has finished.
EchoFairSpec ==
    EchoInit /\ [][EchoFairNext]_vars /\ \A c \in ConnId : WF_vars(DeliverWrite(c))

\* ------------------------------------------------------------- properties
Partial == "OnPartialDataReceived"
Received == "OnDataReceived"

IsPrefix(s, t) == Len(s) <= Len(t) /\ SubSeq(t, 1, Len(s)) = s

\* C1. Single-flight: whatever the observer's hooks call, a connection never
\* has two asynchronous operations (connect-wait, read, write) outstanding at
\* the same time.
C1_SingleFlight ==
    \A c \in ConnId : Len(ops[c]) <= 1

\* C2. Self-termination: once Disconnect has destroyed a connection, no member
\* or method of it is accessed again, neither by the hook that is still
\* running nor by a later completion routine.
C2_NoAccessAfterDisconnect ==
    \A c \in ConnId : ~staleUse[c]

\* C3. A connection is never destroyed twice, and when it is destroyed it has
\* no asynchronous operation outstanding.
C3_DestroyedOnceAndRetired ==
    \A c \in ConnId :
        /\ destroyed[c] <= 1
        /\ pipes[c].life = "destroyed" => ops[c] = <<>>

\* The data notifications of a connection, in order.
DataNotes(c) == SelectSeq(log[c], LAMBDA e : e.hook \in {Partial, Received})

CeilDiv(a, b) == (a + b - 1) \div b

\* The notifications overflow framing promises for one message: for a message
\* longer than N, ceil(S / N) - 1 partial notifications of N bytes each and then
\* one data notification with the rest; one data notification otherwise.
RECURSIVE FramesUpTo(_, _)
FramesUpTo(msg, i) ==
    LET k == IF Len(msg) > N THEN CeilDiv(Len(msg), N) ELSE 1
    IN  IF i = 0
        THEN <<>>
        ELSE Append(FramesUpTo(msg, i - 1),
                    [hook |-> IF i < k THEN Partial ELSE Received,
                     data |-> SubSeq(msg, (i - 1) * N + 1, Min(i * N, Len(msg)))])

Framed(msg) == FramesUpTo(msg, IF Len(msg) > N THEN CeilDiv(Len(msg), N) ELSE 1)

RECURSIVE FramedAll(_)
FramedAll(msgs) == IF msgs = <<>> THEN <<>> ELSE Framed(Head(msgs)) \o FramedAll(Tail(msgs))

\* C4. Overflow framing: with an observer that re-arms the read after each
\* partial notification (the default wiring), a message of S > N bytes reaches
\* the observer as ceil(S / N) - 1 partial notifications of N bytes followed by
\* one data notification, in that order, and the chunks concatenate to the
\* message: the data notifications are always a prefix of that sequence, and
\* the whole of it once the message has been read to its end.
C4_OverflowFraming ==
    observer = "default" =>
        \A c \in ConnId :
            /\ IsPrefix(DataNotes(c), FramedAll(sent[c]))
            /\ inbox[c] = <<>> => DataNotes(c) = FramedAll(sent[c])

\* A message of more than 2 * N bytes was read to its end under the default observer.
C4_Witness ==
    /\ observer = "default"
    /\ \E c \in ConnId :
          /\ sent[c] # <<>>
          /\ Len(sent[c][1]) > 2 * N
          /\ inbox[c] = <<>>
          /\ Len(DataNotes(c)) = CeilDiv(Len(sent[c][1]), N)
          /\ DataNotes(c)[Len(DataNotes(c))].hook = Received

\* The SendData calls of a connection the system accepted, in order.
Issued(c) == SelectSeq(sends[c], LAMBDA e : e.outcome = "issued")

\* C5. Write truncation: SendData with more than M bytes is not an error, and
\* the client receives exactly the first M bytes of the input.
C5_WriteTruncation ==
    \A c \in ConnId :
        /\ \A i \in 1..Len(sends[c]) :
              Len(sends[c][i].input) > M => sends[c][i].outcome # "asserted"
        /\ \A i \in 1..Len(toClient[c]) :
              Len(Issued(c)[i].input) > M => toClient[c][i] = Take(Issued(c)[i].input, M)

\* C6 as stated: after the system reports an error on a read or write of a
\* connection, the connection is destroyed and the observer has been notified
\* of nothing since.
C6_ErrorDestroys ==
    \A c \in ConnId :
        \A i \in 1..Len(faults[c]) :
            /\ Len(log[c]) = faults[c][i]
            /\ destroyed[c] >= 1

\* C6, amended: after the system reports an error on a read or write of a
\* connection (at submission or at completion), the observer is notified of
\* nothing more for that connection, and the connection is destroyed unless
\* severing it failed, in which case the exception has left Run.
C6_ErrorDestroysUnlessSeverFails ==
    \A c \in ConnId :
        \A i \in 1..Len(faults[c]) :
            /\ Len(log[c]) = faults[c][i]
            /\ destroyed[c] >= 1 \/ run = "threw"

\* A read or write error destroyed a connection and the loop goes on.
C6_Witness ==
    \E c \in ConnId :
        /\ faults[c] # <<>>
        /\ destroyed[c] = 1
        /\ pipes[c].life = "destroyed"
        /\ run = "waiting"

\* The connection the server holds is live, not connected, and waits for a
\* client or has one already (the event is signalled).
Accepting(ps, os, ev, c) ==
    /\ c \in ConnId
    /\ ps[c].life = "live"
    /\ ~ps[c].isConnected
    /\ HasOp(os[c], "connect") \/ ev

\* C7. A read or write failure on one connection is absorbed locally: in a step
\* in which the failure destroys the connection (and nothing used the object
\* afterwards), every other connection keeps its fields, its outstanding
\* operations and its client; the loop keeps waiting, unless the step is the
\* connect event of that very connection and setting up the next one failed;
\* and while the loop waits the server's connection still accepts a client.
C7_FailureAbsorbed ==
    [][\A c \in ConnId :
          (/\ Len(faults'[c]) > Len(faults[c])
           /\ destroyed[c] = 0
           /\ destroyed'[c] = 1
           /\ ~staleUse'[c])
          => /\ \A d \in ConnId \ {c} :
                   pipes[d].life # "unborn" =>
                       /\ pipes'[d] = pipes[d]
                       /\ ops'[d] = ops[d]
                       /\ client'[d] = client[d]
             /\ run' = "waiting" \/ nextPipe = c
             /\ run' = "waiting" => Accepting(pipes', ops', sharedEvent', nextPipe')]_vars

\* A failure destroyed one connection while another one has an operation
\* outstanding and a third one accepts clients.
C7_Witness ==
    \E c \in ConnId, d \in ConnId :
        /\ c # d
        /\ faults[c] # <<>>
        /\ pipes[c].life = "destroyed"
        /\ ~staleUse[c]
        /\ pipes[d].life = "live"
        /\ pipes[d].isConnected
        /\ ops[d] # <<>>
        /\ run = "waiting"
        /\ nextPipe \notin {c, d}
        /\ Accepting(pipes, ops, sharedEvent, nextPipe)

\* C8. Accept loop: whenever the loop waits, the server holds exactly one
\* connection, the one created last; it is live and not yet connected, so no
\* connected connection is referenced by the server; and a connect event
\* finalizes the connection the server held (OnConnected sets connected) and
\* replaces it with a new one.
C8_AcceptLoop ==
    /\ [](run = "waiting" =>
             /\ nextPipe \in ConnId
             /\ nextPipe = created
             /\ pipes[nextPipe].life = "live"
             /\ ~pipes[nextPipe].isConnected
             /\ \A c \in ConnId : pipes[c].isConnected => c # nextPipe)
    /\ [][(run = "waiting" /\ run' = "waiting" /\ nextPipe' # nextPipe) =>
             /\ sharedEvent
             /\ pipes'[nextPipe].isConnected
             /\ nextPipe' = nextPipe + 1
             /\ pipes[nextPipe'].life = "unborn"]_vars

\* The loop waits after it has finalized one connection and set up the next.
C8_Witness ==
    /\ run = "waiting"
    /\ nextPipe = 2
    /\ pipes[1].life = "live"
    /\ pipes[1].isConnected
    /\ ~pipes[2].isConnected

\* Connect found the client already connected: the server's connection is
\* neither pending nor connected.
Raced(c) ==
    /\ run = "waiting"
    /\ nextPipe = c
    /\ pipes[c].life = "live"
    /\ ~pipes[c].isConnectionPending
    /\ ~pipes[c].isConnected

\* OnConnected ran on the connection: connected is set, nothing is pending and
\* the observer got OnPipeConnected first.
Served(c) ==
    /\ pipes[c].isConnected
    /\ ~pipes[c].isConnectionPending
    /\ log[c] # <<>>
    /\ log[c][1].hook = "OnPipeConnected"

Transitions ==
    {<<"Idle", "ConnectPending">>, <<"ConnectPending", "Connected">>,
     <<"Connected", "ReadPending">>, <<"Connected", "WritePending">>,
     <<"ReadPending", "Connected">>, <<"WritePending", "Connected">>,
     <<"Connected", "Disconnected">>}

\* C10. Per-connection ordering: a connection goes Idle, ConnectPending,
\* Connected, then ReadPending or WritePending and back to Connected any number
\* of times, then Disconnected; no read or write is outstanding on a connection
\* that is not connected; and ListenForData or SendData on a connection that is
\* not connected changes nothing.
C10_Ordering ==
    /\ [](\A c \in ConnId :
             /\ \A i \in 1..(Len(trail[c]) - 1) : <<trail[c][i], trail[c][i + 1]>> \in Transitions
             /\ (HasOp(ops[c], "read") \/ HasOp(ops[c], "write")) => pipes[c].isConnected)
    /\ [][CallBeforeConnected => UNCHANGED <<pipes, ops, log, trail>>]_vars

\* The hook about to be invoked is the default implementation.
DefaultHandled == observer = "default" \/ Notified(log, MaxConns) >= MaxCustomHooks

\* C11. Default observer wiring: a default OnPipeConnected,
\* OnPartialDataReceived or OnDataSent issues exactly one read on the
\* connection (which the system accepts, or rejects and so disconnects the
\* connection) and nothing else; the default OnDataReceived issues no
\* operation and leaves the connection as it is.
C11_DefaultWiring ==
    [][\A c \in ConnId :
          (DefaultHandled /\ Len(log'[c]) = Len(log[c]) + 1) =>
              LET e == log'[c][Len(log'[c])]
                  retired == IF e.hook = "OnPipeConnected" THEN 0 ELSE 1
                  issued == Len(ops'[c]) - (Len(ops[c]) - retired)
              IN  IF e.hook = Received
                  THEN /\ issued = 0
                       /\ faults'[c] = faults[c]
                       /\ destroyed'[c] = destroyed[c]
                       /\ pipes'[c].life = pipes[c].life
                  ELSE \/ /\ issued = 1
                          /\ ops'[c][Len(ops'[c])].kind = "read"
                          /\ faults'[c] = faults[c]
                          /\ destroyed'[c] = destroyed[c]
                       \/ /\ issued = 0
                          /\ Len(faults'[c]) = Len(faults[c]) + 1]_vars

\* The default OnDataSent has re-armed the read after a write completed, and a
\* default OnDataReceived has left another connection without an operation.
C11_Witness ==
    /\ \E c \in ConnId :
          /\ log[c] # <<>>
          /\ log[c][Len(log[c])].hook = "OnDataSent"
          /\ ops[c] # <<>>
          /\ ops[c][Len(ops[c])].kind = "read"
    /\ \E c \in ConnId :
          /\ log[c] # <<>>
          /\ log[c][Len(log[c])].hook = Received
          /\ ops[c] = <<>>
          /\ pipes[c].life = "live"

\* C13. Ready ordering: the ready event is signalled only by the start of Run,
\* after the first connection was created and its Connect succeeded, when the
\* caller had set one; no later step, so no handled event, changes it; when
\* the first Connect fails it is never signalled.
C13_ReadyOrdering ==
    [][IF run = "notStarted" /\ run' # "notStarted"
       THEN readyEvent'.signalled = (readyEvent.set /\ run' = "waiting" /\ created' = 1)
       ELSE readyEvent'.signalled = readyEvent.signalled]_vars

\* Run has signalled the ready event and waits, with no event handled yet.
C13_Witness ==
    /\ readyEvent.set
    /\ readyEvent.signalled
    /\ run = "waiting"
    /\ nextPipe = 1
    /\ \A c \in ConnId : log[c] = <<>>

\* C12. Serialization through one wait point: every handler (connect handling
\* and completion routines) runs on the dispatch thread and was entered from
\* the alertable wait, and never more than one handler is running, so no
\* routine runs inside another or inside the loop body.
C12_Serialized ==
    /\ Len(dispatch.stack) <= 1
    /\ \A i \in DOMAIN dispatch.stack :
          /\ dispatch.stack[i].thread = "dispatch"
          /\ dispatch.stack[i].from = "wait"

\* A read routine runs while another completion is queued behind it, and a
\* later connection's routine has run before an earlier connection's.
C12_Witness ==
    /\ Len(dispatch.stack) = 1
    /\ dispatch.stack[1].kind = "read"
    /\ dispatch.apc # <<>>
    /\ \E i, j \in DOMAIN dispatch.order : i < j /\ dispatch.order[i] > dispatch.order[j]
    /\ \E i, j \in DOMAIN dispatch.order : i < j /\ dispatch.order[i] < dispatch.order[j]

\* C14. Connect timeout scenario: a Connect against a pipe name that does not
\* exist returns false and raises no error.
C14_ConnectTimeout ==
    (clients.last.op = "Connect" /\ ~clients.last.exists) =>
        clients.last.result = "false"

\* The bytes of a sequence of chunks, in order.
RECURSIVE Concat(_)
Concat(chunks) == IF chunks = <<>> THEN <<>> ELSE Head(chunks) \o Concat(Tail(chunks))

\* C15. Connect opens at once; it waits only when that open found no instance
\* available, and retries the open once, only after a successful wait.  It
\* returns true exactly when the object holds an open handle in message read
\* mode, false exactly when the wait timed out or the retry found no instance
\* again, and raises an error exactly when the system failed in another way.
C15_ConnectContract ==
    clients.last.op = "Connect" =>
        LET k == clients.last
            h == clients.objs[k.slot].h
            busy(i) == i <= Len(k.opens) /\ k.opens[i] = "PIPE_BUSY"
        IN  /\ Len(k.opens) \in {1, 2}
            /\ Len(k.waits) = (IF busy(1) THEN 1 ELSE 0)
            /\ Len(k.opens) = 2 <=> k.waits = <<"ok">>
            /\ k.result = "true" <=>
                  /\ IsConnected(h)
                  /\ clients.handles[h].closes = 0
                  /\ clients.handles[h].mode = "message"
            /\ k.result = "false" <=> (k.waits = <<"SEM_TIMEOUT">> \/ busy(2))
            /\ k.result = "error" <=>
                  \/ \E i \in DOMAIN k.opens : k.opens[i] \notin {"ok", "PIPE_BUSY"}
                  \/ \E i \in DOMAIN k.waits : k.waits[i] \notin {"ok", "SEM_TIMEOUT"}
                  \/ \E i \in DOMAIN k.modes : k.modes[i] = "fail"
            /\ k.result \in {"true", "false", "error"}

\* Connect found no instance, waited, and opened the pipe at the retry.
C15_Witness ==
    /\ clients.last.op = "Connect"
    /\ clients.last.opens = <<"PIPE_BUSY", "ok">>
    /\ clients.last.waits = <<"ok">>
    /\ clients.last.result = "true"

\* C16. WaitForData delivers exactly one message: every chunk put is at most N
\* bytes; when it returns, the chunks put, in order, are the whole message;
\* when a read fails other than by truncation it raises an error and has put
\* exactly the chunks of the reads before, nothing for the failed read.
C16_OneMessage ==
    clients.last.op = "WaitForData" =>
        LET k == clients.last
        IN  /\ \A i \in DOMAIN k.puts : Len(k.puts[i]) <= N
            /\ k.result = "ok" => Concat(k.puts) = k.msg
            /\ k.result = "error" =>
                  /\ k.failAt >= 1
                  /\ Len(k.puts) = k.failAt - 1
                  /\ Concat(k.puts) = Take(k.msg, N * (k.failAt - 1))
            /\ k.result \in {"ok", "error"}

\* A message longer than two buffers arrived in three chunks.
C16_Witness ==
    /\ clients.last.op = "WaitForData"
    /\ clients.last.result = "ok"
    /\ Len(clients.last.puts) = 3
    /\ Len(clients.last.msg) > 2 * N

\* C17. Single ownership: no handle opened for a ClientPipe is closed twice,
\* and one not yet closed is held by an object that is still alive.
C17_SingleOwnership ==
    \A h \in DOMAIN clients.handles :
        /\ clients.handles[h].closes <= 1
        /\ clients.handles[h].closes = 0 =>
              \E s \in Slots : clients.objs[s].alive /\ clients.objs[s].h = h

\* C18. Codec round-trip: what is deserialized from the bytes serialize
\* produced for a primitive or a string equals the value serialized.
C18_RoundTrip ==
    codec.op \in {"primitive", "string"} =>
        /\ codec.result = "value"
        /\ codec.y = codec.x

\* C19. Codec stream position: serialize of a string writes the length plus
\* one as size_t, the units and one zero unit; deserialize of the string
\* consumes exactly those bytes, so the value written after the string is
\* what is deserialized next.
C19_StreamPosition ==
    codec.op = "string" =>
        /\ codec.bytes = ToBytes(Len(codec.x) + 1, SizeBytes)
                            \o UnitBytes(codec.x, codec.width)
                            \o ToBytes(0, codec.width)
        /\ codec.consumed = Len(codec.bytes)
        /\ codec.nextResult = "value"
        /\ codec.z = codec.next

\* C20. Codec underflow: Take(n) with n > 0 fails when fewer than n bytes
\* remain after the read position, and a range it hands out lies inside the
\* buffer; deserializing from bytes cut short fails.
C20_Underflow ==
    /\ (codec.op = "take" /\ codec.n > 0) =>
          LET remaining == IF codec.pos <= codec.size THEN codec.size - codec.pos ELSE 0
          IN  /\ remaining < codec.n => codec.result = "error"
              /\ codec.result = "range" => codec.ptr + codec.n <= codec.size
    /\ (codec.op = "short" /\ codec.declared > codec.avail) => codec.result = "error"

\* How often the observer was told that connection c is connected.
RECURSIVE ConnectedNotes(_)
ConnectedNotes(l) ==
    IF l = <<>> THEN 0
    ELSE (IF Head(l).hook = "OnPipeConnected" THEN 1 ELSE 0) + ConnectedNotes(Tail(l))

C23_DisconnectFatal ==
    /\ [](\A c \in ConnId :
             (run = "waiting" /\ pipes[c].life = "live") =>
                 \A v \in Disconnect(World, c) :
                     IF v.run = "threw"
                     THEN /\ v.lastError = "DISCONNECT_FAILED"
                          /\ v.pipes = pipes
                          /\ v.destroyed = destroyed
                          /\ v.log = log
                     ELSE /\ v.run = "waiting"
                          /\ v.pipes[c].life = "destroyed"
                          /\ v.destroyed[c] = destroyed[c] + 1
                          /\ v.log = log)
    /\ [][/\ run = "threw" => (log' = log /\ run' = run /\ pipes' = pipes)
          /\ (DefaultHandled /\ run = "waiting" /\ run' = "threw"
                 /\ lastError' = "DISCONNECT_FAILED") =>
                (destroyed' = destroyed /\ \A c \in ConnId : pipes'[c].life = pipes[c].life)]_vars

\* A read or write of a connected connection failed, the sever call failed
\* too: Run has thrown and the connection still exists.
C23_Witness ==
    /\ run = "threw"
    /\ lastError = "DISCONNECT_FAILED"
    /\ \E c \in ConnId :
          /\ faults[c] # <<>>
          /\ log[c] # <<>>
          /\ pipes[c].life = "live"
          /\ destroyed[c] = 0

\* C25. Failed deserialization consumes nothing: when deserialize fails with
\* the data-not-available error, the source's read position is what it was
\* before the call.
C25_FailureConsumesNothing ==
    (codec.op = "short" /\ codec.result = "error") => codec.consumed = 0

\* The response the echo test promises for a complete message m.
Expected(m) == Take(ResponsePrefix \o (IF m = <<>> THEN NoneText ELSE m), M)

\* The positions of the data notifications in a log.
ReceivedAt(l) ==
    SelectSeq([j \in 1..Len(l) |-> j], LAMBDA j : l[j].hook = Received)

\* C21. Echo round trip: for each complete client message the echo observer
\* calls SendData exactly once, with the prefix followed by the message
\* ("<none>" for an empty one) cut to M bytes, never more than M; what the
\* client is sent is that response, and a WaitForData whose buffer holds it
\* puts it in one read.
C21_EchoRoundTrip ==
    \A c \in ConnId :
        LET k == Len(ReceivedAt(log[c]))
        IN  /\ Len(sends[c]) = k
            /\ k <= Len(sent[c])
            /\ \A i \in 1..k :
                  /\ sends[c][i].input = Expected(sent[c][i])
                  /\ Len(sends[c][i].input) <= M
                  /\ sends[c][i].outcome # "asserted"
            /\ Len(toClient[c]) <= k
            /\ \A i \in 1..Len(toClient[c]) :
                  /\ toClient[c][i] = Expected(sent[c][i])
                  /\ Len(toClient[c][i]) <= N =>
                        WaitForData(toClient[c][i], <<>>, 1, 0)
                           = [puts |-> <<toClient[c][i]>>, result |-> "ok"]

\* A client got the prefix and its one-byte message back, and another the cut
\* response to a message that reached the server in several chunks.
C21_Witness ==
    /\ \E c \in ConnId :
          /\ toClient[c] # <<>>
          /\ Len(sent[c][1]) = 1
          /\ toClient[c][1] = ResponsePrefix \o sent[c][1]
    /\ \E c \in ConnId :
          /\ toClient[c] # <<>>
          /\ Len(sent[c][1]) > N
          /\ toClient[c][1] = Take(ResponsePrefix \o sent[c][1], M)

\* The chunks of the message a connection is in the middle of: the data of
\* the partial notifications at the end of its log.
RECURSIVE Pending(_)
Pending(l) ==
    IF l = <<>> \/ l[Len(l)].hook # Partial THEN <<>>
    ELSE Pending(SubSeq(l, 1, Len(l) - 1)) \o l[Len(l)].data

\* C24. Echo reassembly is per connection: the accumulator of a connected
\* connection holds exactly the chunks notified on that connection for the
\* message it is in the middle of (nothing after a complete message and at
\* connect time), and each response was made from the chunks of that
\* connection's message, in order.
C24_PerConnection ==
    \A c \in ConnId :
        (pipes[c].life = "live" /\ pipes[c].isConnected) =>
            /\ echo.handleOf[c] # Null
            /\ \A d \in ConnId \ {c} :
                  pipes[d].life = "live" => echo.handleOf[d] # echo.handleOf[c]
            /\ echo.acc[echo.handleOf[c]] = Pending(log[c])
            /\ \A i \in 1..Len(sends[c]) :
                  LET j == ReceivedAt(log[c])[i]
                  IN  sends[c][i].input
                         = Expected(Pending(SubSeq(log[c], 1, j - 1)) \o log[c][j].data)

\* Two connections are in the middle of a message at the same time.
C24_Witness ==
    \E c, d \in ConnId :
        /\ c # d
        /\ pipes[c].life = "live" /\ pipes[d].life = "live"
        /\ Pending(log[c]) # <<>>
        /\ Pending(log[d]) # <<>>

\* A complete message of connection c has not been answered yet.
Unanswered(c) == Len(ReceivedAt(log[c])) > Len(toClient[c])

\* With the loop waiting, every connected connection has exactly one read or
\* write outstanding; and a step in which a read or write of a connection
\* failed destroyed that connection, or ended Run.
OneOutstanding ==
    /\ [](\A c \in ConnId :
             (run = "waiting" /\ pipes[c].life = "live" /\ pipes[c].isConnected) =>
                 /\ Len(ops[c]) = 1
                 /\ ops[c][1].kind \in {"read", "write"})
    /\ [][\A c \in ConnId :
             Len(faults'[c]) > Len(faults[c]) =>
                 (destroyed'[c] > destroyed[c] \/ run' # "waiting")]_vars

\* C26, as stated. Echo liveness: a connected connection always has exactly
\* one read or write outstanding while the loop waits, every complete client
\* message is eventually answered or, the client having gone away, its
\* connection destroyed.
C26_EchoLiveness ==
    /\ OneOutstanding
    /\ \A c \in ConnId : Unanswered(c) ~> (~Unanswered(c) \/ destroyed[c] > 0)

\* C26. Echo liveness, unless Run ends: as above, but a message may stay
\* unanswered and its connection undestroyed when Run has been ended by an
\* exception (a failed sever call, or a failure to set up the next pipe).
C26_EchoLivenessUnlessRunEnds ==
    /\ OneOutstanding
    /\ \A c \in ConnId :
          Unanswered(c) ~> (~Unanswered(c) \/ destroyed[c] > 0 \/ run # "waiting")

\* A message was answered, on a connection that then read on and was
\* destroyed when its client went away.
C26_Witness ==
    \E c \in ConnId :
        /\ toClient[c] # <<>>
        /\ ~Unanswered(c)
        /\ destroyed[c] = 1
        /\ faults[c] # <<>>
        /\ run = "waiting"
====
